---- MODULE Spec2Model ----
(***************************************************************************)
(* Model of the E2E_Testing frontend: the App component (Playwright setup  *)
(* log streamed over an EventSource) and the TestGenerator component       *)
(* (script generation and the chunked container-run log).                  *)
(*                                                                         *)
(* Text is a sequence of lexemes.  A lexeme is a piece of text that the    *)
(* model never divides: a single character ("d", ":", " ", "\n"), or a     *)
(* JSON token ("{", "}", ",", a whole  "key":value  member, null), or a    *)
(* word of a message.  A chunk boundary of the container stream may fall   *)
(* between any two lexemes.                                                *)
(***************************************************************************)
EXTENDS Naturals, Sequences, FiniteSets

VARIABLES
    route,          \* the mounted view: "/" (App) or "/test-generator"
    path,           \* App: useState("E:\\PlaywrightSetupAgent")
    logs,           \* App: useState([])
    appLoading,     \* App: const [loading, setLoading] = useState(false)
    openSources,    \* number of EventSource objects that are not closed
    setupRun,       \* history of the current setup run (see NoRun)
    appStep,        \* what the last step of App's code did
    file,           \* TestGenerator: useState(null)
    projectUrl,     \* TestGenerator: useState("")
    output,         \* TestGenerator: useState("")
    runCommand,     \* TestGenerator: useState("")
    loading,        \* TestGenerator: useState(false)
    dockerRunning,  \* TestGenerator: useState(false)
    dockerOutput,   \* TestGenerator: useState("")
    dockerResults,  \* TestGenerator: useState(null)
    gen,            \* the handleGenerate invocation in flight (see GenIdle)
    run,            \* the handleRunWithDocker invocation in flight (see RunIdle)
    genStep,        \* what the last step of handleGenerate did
    runStep         \* what the last step of handleRunWithDocker did

appVars == <<path, logs, appLoading, setupRun, appStep>>
genVars == <<file, projectUrl, output, runCommand, loading, dockerRunning,
             dockerOutput, dockerResults, gen, run, genStep, runStep>>
vars == <<route, openSources, appVars, genVars>>

----------------------------------------------------------------------------
(* Bounds of the model *)

\* messages delivered to one setup run
MaxMsgs == 3
\* lines of a container-run response body
MaxLines == 2

----------------------------------------------------------------------------
(* JavaScript values *)

Undefined == [t |-> "undefined", s |-> <<>>, passed |-> 0, failed |-> 0, total |-> 0]
Null == [Undefined EXCEPT !.t = "null"]
Str(s) == [Undefined EXCEPT !.t = "string", !.s = s]
Obj(p, f, n) == [Undefined EXCEPT !.t = "object", !.passed = p, !.failed = f, !.total = n]

\* String(v), as `+` applies it to a non-string operand
ToText(v) ==
    CASE v.t = "string" -> v.s
      [] v.t = "undefined" -> <<"undefined">>
      [] v.t = "null" -> <<"null">>
      [] OTHER -> <<"[object Object]">>

\* !v
Falsy(v) == v.t \in {"undefined", "null"} \/ (v.t = "string" /\ v.s = <<>>)

NL == "\n"
\* the completion marker of the setup stream, U+1F389
Marker == "U+1F389"

\* String.prototype.includes, for a one-lexeme needle
includes(s, needle) == \E i \in 1..Len(s) : s[i] = needle

startsWith(line, prefix) ==
    Len(line) >= Len(prefix) /\ SubSeq(line, 1, Len(prefix)) = prefix

slice(line, n) == SubSeq(line, n + 1, Len(line))

\* String.prototype.split(sep): the pieces between the separators; a text that
\* ends with the separator yields a last, empty piece
RECURSIVE split(_, _)
split(text, sep) ==
    LET hits == {i \in 1..Len(text) : text[i] = sep}
    IN  IF hits = {} THEN <<text>>
        ELSE LET i == CHOOSE k \in hits : \A j \in hits : k <= j
             IN  <<SubSeq(text, 1, i - 1)>> \o split(SubSeq(text, i + 1, Len(text)), sep)

----------------------------------------------------------------------------
(* JSON.parse, on the JSON texts the two backends' frames are made of *)

Members == {
    [lex |-> "\"type\":\"info\"",    key |-> "type",    val |-> Str(<<"info">>)],
    [lex |-> "\"type\":\"success\"", key |-> "type",    val |-> Str(<<"success">>)],
    [lex |-> "\"type\":\"log\"",     key |-> "type",    val |-> Str(<<"log">>)],
    [lex |-> "\"type\":\"result\"",  key |-> "type",    val |-> Str(<<"result">>)],
    [lex |-> "\"message\":\"a\"",    key |-> "message", val |-> Str(<<"a">>)],
    [lex |-> "\"message\":\"b\"",    key |-> "message", val |-> Str(<<"b">>)],
    [lex |-> "\"message\":\"done U+1F389\"", key |-> "message",
                                     val |-> Str(<<"done", " ", Marker>>)],
    [lex |-> "\"result\":{\"passed\":2,\"failed\":1,\"total\":3}",
                                     key |-> "result",  val |-> Obj(2, 1, 3)],
    [lex |-> "\"script\":\"test_a\"", key |-> "script", val |-> Str(<<"test_a">>)],
    [lex |-> "\"script\":\"test_b\"", key |-> "script", val |-> Str(<<"test_b">>)],
    [lex |-> "\"script\":\"\"",       key |-> "script", val |-> Str(<<>>)] }

IsMember(lex) == \E m \in Members : m.lex = lex
MemberOf(lex) == CHOOSE m \in Members : m.lex = lex

\* the value `data` of a parsed text: null, or an object seen through the four
\* properties the handlers read
NullData == [isNull |-> TRUE, type |-> Undefined, message |-> Undefined,
             result |-> Undefined, script |-> Undefined]
EmptyObject == [NullData EXCEPT !.isNull = FALSE]

\* the last member with this key wins, an absent key reads as undefined
Property(members, key) ==
    LET at == {i \in 1..Len(members) : i % 2 = 1 /\ MemberOf(members[i]).key = key}
    IN  IF at = {} THEN Undefined
        ELSE MemberOf(members[CHOOSE i \in at : \A j \in at : j <= i]).val

\* member ("," member)*
WellFormedMembers(members) ==
    /\ Len(members) % 2 = 1
    /\ \A i \in 1..Len(members) :
          IF i % 2 = 1 THEN IsMember(members[i]) ELSE members[i] = ","

\* [ok |-> FALSE] stands for the SyntaxError JSON.parse throws
JSONparse(text) ==
    IF text = <<"null">> THEN [ok |-> TRUE, data |-> NullData]
    ELSE IF Len(text) >= 2 /\ text[1] = "{" /\ text[Len(text)] = "}"
    THEN LET members == SubSeq(text, 2, Len(text) - 1)
         IN  IF members = <<>> THEN [ok |-> TRUE, data |-> EmptyObject]
             ELSE IF WellFormedMembers(members)
             THEN [ok |-> TRUE,
                   data |-> [isNull |-> FALSE,
                             type |-> Property(members, "type"),
                             message |-> Property(members, "message"),
                             result |-> Property(members, "result"),
                             script |-> Property(members, "script")]]
             ELSE [ok |-> FALSE, data |-> NullData]
    ELSE [ok |-> FALSE, data |-> NullData]

----------------------------------------------------------------------------
(* App: the setup log stream *)

DefaultPath == "E:\\PlaywrightSetupAgent"

\* the e.data of the messages the setup endpoint pushes
SetupPayloads == {
    <<"{", "\"type\":\"info\"", ",", "\"message\":\"a\"", "}">>,
    <<"{", "\"type\":\"info\"", ",", "\"message\":\"b\"", "}">>,
    <<"{", "\"type\":\"success\"", ",", "\"message\":\"done U+1F389\"", "}">>,
    <<"{", "\"type\":\"info\"", "}">>,
    <<"{", "\"type\":\"info\"", ",">> }

\* History of the setup run in progress, kept beside the component's state:
\* parsed  the messages JSON.parse accepted, in arrival order
\* msgs    the number of messages delivered
\* falls   the number of times loading went from true to false
\* discarded  the number of log entries the start of the run discarded
NoRun == [started |-> FALSE, parsed |-> <<>>, msgs |-> 0, falls |-> 0, discarded |-> 0]

AppMounted == route = "/"

\* <button onClick={handleSetup} disabled={loading}>
SetupButtonEnabled == ~appLoading

\* onChange={(e) => setPath(e.target.value)}
setPath(p) ==
    /\ AppMounted
    /\ p # path
    /\ path' = p
    /\ appStep' = "setPath"
    /\ UNCHANGED <<route, openSources, logs, appLoading, setupRun, genVars>>

\* handleSetup without setLogs([])
handleSetup_NoReset ==
    /\ AppMounted
    /\ SetupButtonEnabled
    /\ IF path = ""
       THEN /\ appStep' = "alert"
            /\ UNCHANGED <<logs, appLoading, openSources, setupRun>>
       ELSE /\ logs' = logs
            /\ appLoading' = TRUE
            /\ openSources' = openSources + 1
            /\ setupRun' = [NoRun EXCEPT !.started = TRUE, !.parsed = logs]
            /\ appStep' = "start"
    /\ UNCHANGED <<route, path, genVars>>

handleSetup ==
    /\ AppMounted
    /\ SetupButtonEnabled
    /\ IF path = ""
       THEN /\ appStep' = "alert"
            /\ UNCHANGED <<logs, appLoading, openSources, setupRun>>
       ELSE /\ logs' = <<>>
            /\ appLoading' = TRUE
            /\ openSources' = openSources + 1
            /\ setupRun' = [NoRun EXCEPT !.started = TRUE, !.discarded = Len(logs)]
            /\ appStep' = "start"
    /\ UNCHANGED <<route, path, genVars>>

\* onmessageOutcome without the test for the completion marker
onmessageOutcome_NoMarker(payload) ==
    LET p == JSONparse(payload)
    IN  IF ~p.ok THEN "parseError"
        ELSE IF p.data.isNull \/ p.data.message.t # "string" THEN "typeError"
        ELSE "append"

\* What evtSource.onmessage does with e.data = payload:
\*   "parseError"  JSON.parse threw
\*   "typeError"   the entry was appended, then data.message.includes threw
\*   "marker"      the entry was appended, the source closed, loading cleared
\*   "append"      the entry was appended
onmessageOutcome(payload) ==
    LET p == JSONparse(payload)
    IN  IF ~p.ok THEN "parseError"
        ELSE IF p.data.isNull \/ p.data.message.t # "string" THEN "typeError"
        ELSE IF includes(p.data.message.s, Marker) THEN "marker"
        ELSE "append"

\* onmessage with a payload that does not parse ending the run
onmessage_ParseErrorEnds(payload) ==
    LET p == JSONparse(payload)
        o == onmessageOutcome(payload)
        ends == o \in {"marker", "parseError"}
    IN  /\ openSources > 0
        /\ UNCHANGED <<route, path, genVars>>
        /\ openSources' = IF ends THEN openSources - 1 ELSE openSources
        /\ IF AppMounted
           THEN /\ setupRun.msgs < MaxMsgs
                /\ logs' = IF o = "parseError" THEN logs ELSE Append(logs, p.data)
                /\ appLoading' = IF ends THEN FALSE ELSE appLoading
                /\ setupRun' = [setupRun EXCEPT
                        !.msgs = @ + 1,
                        !.parsed = IF p.ok THEN Append(@, p.data) ELSE @,
                        !.falls = IF ends /\ appLoading THEN @ + 1 ELSE @]
                /\ appStep' = o
           ELSE /\ ends
                /\ UNCHANGED appVars

\* The handlers of an EventSource run while it is not closed, whether or not the
\* component is still mounted; the state setters of an unmounted component do
\* nothing.
onmessage(payload) ==
    LET p == JSONparse(payload)
        o == onmessageOutcome(payload)
    IN  /\ openSources > 0
        /\ UNCHANGED <<route, path, genVars>>
        /\ openSources' = IF o = "marker" THEN openSources - 1 ELSE openSources
        /\ IF AppMounted
           THEN /\ setupRun.msgs < MaxMsgs
                /\ logs' = IF o = "parseError" THEN logs ELSE Append(logs, p.data)
                /\ appLoading' = IF o = "marker" THEN FALSE ELSE appLoading
                /\ setupRun' = [setupRun EXCEPT
                        !.msgs = @ + 1,
                        !.parsed = IF p.ok THEN Append(@, p.data) ELSE @,
                        !.falls = IF o = "marker" /\ appLoading THEN @ + 1 ELSE @]
                /\ appStep' = o
           ELSE /\ o = "marker"
                /\ UNCHANGED appVars

onerror ==
    /\ openSources > 0
    /\ openSources' = openSources - 1
    /\ UNCHANGED <<route, path, genVars>>
    /\ IF AppMounted
       THEN /\ appLoading' = FALSE
            /\ setupRun' = [setupRun EXCEPT !.falls = IF appLoading THEN @ + 1 ELSE @]
            /\ appStep' = "error"
            /\ UNCHANGED logs
       ELSE UNCHANGED appVars

InitApp ==
    /\ path = DefaultPath
    /\ logs = <<>>
    /\ appLoading = FALSE
    /\ setupRun = NoRun
    /\ appStep = "init"

\* navigate("/test-generator"): App unmounts and its state is discarded; an
\* EventSource it opened is not closed.
handleNavigateToGenerator ==
    /\ AppMounted
    /\ route' = "/test-generator"
    /\ path' = DefaultPath
    /\ logs' = <<>>
    /\ appLoading' = FALSE
    /\ setupRun' = NoRun
    /\ appStep' = "unmounted"
    /\ UNCHANGED <<openSources, genVars>>

----------------------------------------------------------------------------
(* TestGenerator: generation *)

GeneratorMounted == route = "/test-generator"

NoFile == "null"
Files == {NoFile, "cases.csv"}
Urls == {"", "https://example.com"}

\* the bodies the generation endpoint answers with
GenBodies == {
    <<"{", "\"script\":\"test_a\"", "}">>,
    <<"{", "\"script\":\"test_b\"", "}">>,
    <<"{", "\"script\":\"\"", "}">>,
    <<"{", "}">>,
    <<"null">>,
    <<"<html>">> }

\* err.message of the failures fetch, res.json() and data.script can raise
FailedToFetch == <<"Failed to fetch">>
UnexpectedToken == <<"Unexpected token < in JSON at position 0">>
CannotReadNull == <<"Cannot read properties of null">>

\* How a generation request settled: "rejected" with err.message, or "parsed"
\* with the script property of the response
Unsettled == [kind |-> "none", message |-> <<>>, script |-> Undefined]
Rejected(message) == [Unsettled EXCEPT !.kind = "rejected", !.message = message]
Parsed(data) == [Unsettled EXCEPT !.kind = "parsed", !.script = data.script]

\* The handleGenerate invocation in flight:
\* pc        "idle" or "fetch" (awaiting the response)
\* requests  the requests the last invocation that passed validation issued
\* held      what that invocation left in output: "none", "script" or "error"
\* settled   how its request settled
GenIdle == [pc |-> "idle", requests |-> 0, held |-> "none", settled |-> Unsettled]

\* What the last step of a handler did: the step, whether it called alert() and
\* whether it called fetch(); kinds is set by the container run's read step.
Step(op, alert, request) ==
    [op |-> op, alert |-> alert, request |-> request, kinds |-> {}]

\* onChange={e => setFile(e.target.files[0])}, and handleDrop for a dropped file
setFile(f) ==
    /\ GeneratorMounted
    /\ f # file
    /\ file' = f
    /\ UNCHANGED <<route, openSources, appVars, projectUrl, output, runCommand,
                   loading, dockerRunning, dockerOutput, dockerResults, gen, run,
                   genStep, runStep>>

\* onChange={e => setProjectUrl(e.target.value)}
setProjectUrl(u) ==
    /\ GeneratorMounted
    /\ u # projectUrl
    /\ projectUrl' = u
    /\ UNCHANGED <<route, openSources, appVars, file, output, runCommand,
                   loading, dockerRunning, dockerOutput, dockerResults, gen, run,
                   genStep, runStep>>

\* <button onClick={handleGenerate} disabled={loading || !file || !projectUrl}>
GenerateButtonEnabled == ~(loading \/ file = NoFile \/ projectUrl = "")

\* if (!file || !projectUrl) return;
GenerateInputsMissing == file = NoFile \/ projectUrl = ""

\* handleGenerate without its validation
handleGenerate_NoValidation ==
    /\ GeneratorMounted
    /\ GenerateButtonEnabled \/ GenerateInputsMissing
    /\ loading' = TRUE
    /\ output' = <<>>
    /\ runCommand' = <<>>
    /\ gen' = [pc |-> "fetch", requests |-> 1, held |-> "none", settled |-> Unsettled]
    /\ genStep' = Step("generate:start", FALSE, TRUE)
    /\ UNCHANGED <<route, openSources, appVars, file, projectUrl,
                   dockerRunning, dockerOutput, dockerResults, run, runStep>>

\* The handler up to its first await.  A click reaches it only while the button
\* is enabled; its validation branch is the handler invoked with an input missing.
handleGenerate ==
    /\ GeneratorMounted
    /\ GenerateButtonEnabled \/ GenerateInputsMissing
    /\ IF GenerateInputsMissing
       THEN /\ genStep' = Step("generate:return", FALSE, FALSE)
            /\ UNCHANGED <<loading, output, runCommand, gen>>
       ELSE /\ loading' = TRUE
            /\ output' = <<>>
            /\ runCommand' = <<>>
            /\ gen' = [pc |-> "fetch", requests |-> 1, held |-> "none",
                       settled |-> Unsettled]
            /\ genStep' = Step("generate:start", FALSE, TRUE)
    /\ UNCHANGED <<route, openSources, appVars, file, projectUrl,
                   dockerRunning, dockerOutput, dockerResults, run, runStep>>

\* catch (err) { setOutput("Error: " + err.message) } finally { setLoading(false) }
GenerateCatch(message) ==
    /\ output' = <<"Error: ">> \o message
    /\ loading' = FALSE
    /\ gen' = [gen EXCEPT !.pc = "idle", !.held = "error", !.settled = Rejected(message)]
    /\ genStep' = Step("generate:error", FALSE, FALSE)
    /\ UNCHANGED runCommand

\* const script = data.script, without the default
ScriptOf_NoDefault(data) == ToText(data.script)

\* const script = data.script || ""
ScriptOf(data) == IF Falsy(data.script) THEN <<>> ELSE ToText(data.script)

\* await fetch(...) and await res.json() settle, and the handler runs to its end.
\* Nothing is set between the two awaits, so they are one step: fetch rejects, or
\* it resolves with a response whose body res.json() parses or rejects.
generateSettles ==
    /\ gen.pc = "fetch"
    /\ \/ GenerateCatch(FailedToFetch)
       \/ \E body \in GenBodies :
             LET p == JSONparse(body)
             IN  IF ~p.ok THEN GenerateCatch(UnexpectedToken)
                 ELSE IF p.data.isNull THEN GenerateCatch(CannotReadNull)
                 ELSE /\ output' = ScriptOf(p.data)
                      /\ runCommand' = <<"pytest --headed --browser chromium">>
                      /\ loading' = FALSE
                      /\ gen' = [gen EXCEPT !.pc = "idle",
                                   !.held = IF ScriptOf(p.data) = <<>> THEN "none" ELSE "script",
                                   !.settled = Parsed(p.data)]
                      /\ genStep' = Step("generate:done", FALSE, FALSE)
    /\ UNCHANGED <<route, openSources, appVars, file, projectUrl,
                   dockerRunning, dockerOutput, dockerResults, run, runStep>>

InitGenerator ==
    /\ file = NoFile
    /\ projectUrl = ""
    /\ output = <<>>
    /\ runCommand = <<>>
    /\ loading = FALSE
    /\ dockerRunning = FALSE
    /\ dockerOutput = <<>>
    /\ dockerResults = Null
    /\ gen = GenIdle
    /\ genStep = Step("init", FALSE, FALSE)
    /\ runStep = Step("init", FALSE, FALSE)

----------------------------------------------------------------------------
(* TestGenerator: the container run *)

\* line.startsWith('data: ') and line.slice(6)
Prefix == <<"d", "a", "t", "a", ":", " ">>
PrefixLen == 6

LogFrameA == Prefix \o <<"{", "\"type\":\"log\"", ",", "\"message\":\"a\"", "}">>
ResultFrame ==
    Prefix \o <<"{", "\"type\":\"result\"", ",",
                "\"result\":{\"passed\":2,\"failed\":1,\"total\":3}", "}">>

\* the lines the execution endpoint writes
DockerLines == {
    LogFrameA,
    ResultFrame,
    Prefix \o <<"null">>,
    Prefix \o <<"oops">>,
    <<"raw">>,
    <<>> }

\* response bodies: up to MaxLines lines, each ended by a newline
RECURSIVE BodiesOf(_)
BodiesOf(n) ==
    IF n = 0 THEN {<<>>}
    ELSE {line \o <<NL>> \o rest : line \in DockerLines, rest \in BodiesOf(n - 1)}

DockerBodies == UNION {BodiesOf(n) : n \in 0..MaxLines}

\* the bodies served in Spec, where the whole program runs beside the container
\* run: an empty one, log and result frames, and a malformed frame before a log
\* frame
ProgramBodies == {
    <<>>,
    LogFrameA \o <<NL>> \o ResultFrame \o <<NL>>,
    Prefix \o <<"oops">> \o <<NL>> \o LogFrameA \o <<NL>> }

\* The handleRunWithDocker invocation in flight:
\* pc          "idle", "fetch" (awaiting fetch) or "read" (awaiting reader.read())
\* rest        the part of the response body no read has returned yet
\* fullOutput  the handler's local variable
\* sent        the test_script of the request
RunIdle == [pc |-> "idle", rest |-> <<>>, fullOutput |-> <<>>, sent |-> <<>>]

InitRun == run = RunIdle

\* The state the body of the for loop works on
LoopState == [fullOutput |-> run.fullOutput, dockerOutput |-> dockerOutput,
              dockerResults |-> dockerResults]

\* processLine with an else branch that shows a line without the prefix
processLine_AppendUnprefixed(st, line) ==
    IF startsWith(line, Prefix)
    THEN LET p == JSONparse(slice(line, PrefixLen))
         IN  IF p.ok /\ ~p.data.isNull
             THEN LET full == st.fullOutput \o ToText(p.data.message) \o <<NL>>
                  IN  [fullOutput |-> full,
                       dockerOutput |-> full,
                       dockerResults |-> IF p.data.type = Str(<<"result">>)
                                         THEN p.data.result
                                         ELSE st.dockerResults]
             ELSE LET full == st.fullOutput \o line \o <<NL>>
                  IN  [st EXCEPT !.fullOutput = full, !.dockerOutput = full]
    ELSE LET full == st.fullOutput \o line \o <<NL>>
         IN  [st EXCEPT !.fullOutput = full, !.dockerOutput = full]

\* processLine with  fullOutput = ...  in place of  fullOutput += ...
processLine_Overwrite(st, line) ==
    IF startsWith(line, Prefix)
    THEN LET p == JSONparse(slice(line, PrefixLen))
         IN  IF p.ok /\ ~p.data.isNull
             THEN LET full == ToText(p.data.message) \o <<NL>>
                  IN  [fullOutput |-> full,
                       dockerOutput |-> full,
                       dockerResults |-> IF p.data.type = Str(<<"result">>)
                                         THEN p.data.result
                                         ELSE st.dockerResults]
             ELSE LET full == line \o <<NL>>
                  IN  [st EXCEPT !.fullOutput = full, !.dockerOutput = full]
    ELSE st

\* One pass of  for (const line of lines) { ... }
processLine(st, line) ==
    IF startsWith(line, Prefix)
    THEN LET p == JSONparse(slice(line, PrefixLen))
         IN  IF p.ok /\ ~p.data.isNull
             THEN LET full == st.fullOutput \o ToText(p.data.message) \o <<NL>>
                  IN  [fullOutput |-> full,
                       dockerOutput |-> full,
                       dockerResults |-> IF p.data.type = Str(<<"result">>)
                                         THEN p.data.result
                                         ELSE st.dockerResults]
             ELSE \* catch (e): JSON.parse threw, or data.message did on null
                  LET full == st.fullOutput \o line \o <<NL>>
                  IN  [st EXCEPT !.fullOutput = full, !.dockerOutput = full]
    ELSE st

RECURSIVE processLines(_, _)
processLines(st, lines) ==
    IF lines = <<>> THEN st
    ELSE processLines(processLine(st, Head(lines)), Tail(lines))

\* const lines = chunk.split('\n'); for (const line of lines) ...
processChunk(st, chunk) == processLines(st, split(chunk, NL))

\* How the loop treats a line: "empty" and "unprefixed" (no prefix), "frame"
\* (parsed) or "fallback" (prefixed, shown raw)
LineKind(line) ==
    IF line = <<>> THEN "empty"
    ELSE IF ~startsWith(line, Prefix) THEN "unprefixed"
    ELSE LET p == JSONparse(slice(line, PrefixLen))
         IN  IF p.ok /\ ~p.data.isNull THEN "frame" ELSE "fallback"

ChunkKinds(chunk) ==
    LET lines == split(chunk, NL)
    IN  {LineKind(lines[i]) : i \in 1..Len(lines)}

\* {output && ( ... <button onClick={handleRunWithDocker} disabled={dockerRunning}>
RunButtonEnabled == output # <<>> /\ ~dockerRunning

\* The handler up to its first await.  A click reaches it only while the button
\* is rendered and enabled; its validation branch is the handler invoked with no
\* output held.
handleRunWithDocker ==
    /\ GeneratorMounted
    /\ RunButtonEnabled \/ output = <<>>
    /\ IF output = <<>>
       THEN /\ runStep' = Step("run:alert", TRUE, FALSE)
            /\ UNCHANGED <<dockerRunning, dockerOutput, dockerResults, run>>
       ELSE /\ dockerRunning' = TRUE
            /\ dockerOutput' = <<>>
            /\ dockerResults' = Null
            /\ run' = [pc |-> "fetch", rest |-> <<>>, fullOutput |-> <<>>, sent |-> output]
            /\ runStep' = Step("run:start", FALSE, TRUE)
    /\ UNCHANGED <<route, openSources, appVars, file, projectUrl, output,
                   runCommand, loading, gen, genStep>>

HttpError == <<"HTTP error! status: 500">>
NetworkError == <<"network error">>

\* RunCatch without the finally block: the flag is left as it was
RunCatch_NoFinally(message) ==
    /\ dockerOutput' = <<"Error running Docker tests: ">> \o message
    /\ run' = [run EXCEPT !.pc = "idle", !.rest = <<>>]
    /\ runStep' = Step("run:error", FALSE, FALSE)
    /\ UNCHANGED <<dockerRunning, dockerResults>>

\* catch (err) { setDockerOutput("Error running Docker tests: " + err.message) }
\* finally { setDockerRunning(false) }
RunCatch(message) ==
    /\ dockerOutput' = <<"Error running Docker tests: ">> \o message
    /\ dockerRunning' = FALSE
    /\ run' = [run EXCEPT !.pc = "idle", !.rest = <<>>]
    /\ runStep' = Step("run:error", FALSE, FALSE)
    /\ UNCHANGED dockerResults

\* await fetch(...) settles: it rejects, resolves with a status that is not ok,
\* or resolves with a body to read, one of bodies
runFetchSettles(bodies) ==
    /\ run.pc = "fetch"
    /\ \/ RunCatch(FailedToFetch)
       \/ RunCatch(HttpError)
       \/ \E body \in bodies :
             /\ run' = [run EXCEPT !.pc = "read", !.rest = body, !.fullOutput = <<>>]
             /\ runStep' = Step("run:response", FALSE, FALSE)
             /\ UNCHANGED <<dockerRunning, dockerOutput, dockerResults>>
    /\ UNCHANGED <<route, openSources, appVars, file, projectUrl, output,
                   runCommand, loading, gen, genStep>>

\* await reader.read() settles with a chunk, and the for loop runs over its lines.
\* The chunk is any non-empty prefix of the unread body; with wholeLines, the
\* network delivers whole lines only (every chunk ends with a newline).
runReadChunk(wholeLines) ==
    /\ run.pc = "read"
    /\ \E k \in 1..Len(run.rest) :
          /\ wholeLines => run.rest[k] = NL
          /\ LET chunk == SubSeq(run.rest, 1, k)
                 st == processChunk(LoopState, chunk)
             IN  /\ run' = [run EXCEPT !.rest = SubSeq(run.rest, k + 1, Len(run.rest)),
                                       !.fullOutput = st.fullOutput]
                 /\ dockerOutput' = st.dockerOutput
                 /\ dockerResults' = st.dockerResults
                 /\ runStep' = [Step("run:chunk", FALSE, FALSE)
                                   EXCEPT !.kinds = ChunkKinds(chunk)]
    /\ UNCHANGED <<route, openSources, appVars, file, projectUrl, output,
                   runCommand, loading, gen, genStep, dockerRunning>>

\* await reader.read() settles with done: break, then finally
runReadDone ==
    /\ run.pc = "read"
    /\ run.rest = <<>>
    /\ dockerRunning' = FALSE
    /\ run' = [run EXCEPT !.pc = "idle"]
    /\ runStep' = Step("run:done", FALSE, FALSE)
    /\ UNCHANGED <<route, openSources, appVars, file, projectUrl, output,
                   runCommand, loading, gen, genStep, dockerOutput, dockerResults>>

\* await reader.read() rejects
runReadFails ==
    /\ run.pc = "read"
    /\ RunCatch(NetworkError)
    /\ UNCHANGED <<route, openSources, appVars, file, projectUrl, output,
                   runCommand, loading, gen, genStep>>

----------------------------------------------------------------------------
(* The program *)

Init ==
    /\ route = "/"
    /\ openSources = 0
    /\ InitApp
    /\ InitGenerator
    /\ InitRun

Next ==
    \/ \E p \in {"", DefaultPath} : setPath(p)
    \/ handleSetup
    \/ \E payload \in SetupPayloads : onmessage(payload)
    \/ onerror
    \/ handleNavigateToGenerator
    \/ \E f \in Files : setFile(f)
    \/ \E u \in Urls : setProjectUrl(u)
    \/ handleGenerate
    \/ generateSettles
    \/ handleRunWithDocker
    \/ runFetchSettles(ProgramBodies)
    \/ runReadChunk(TRUE)
    \/ runReadDone
    \/ runReadFails

Spec == Init /\ [][Next]_vars

----------------------------------------------------------------------------
(* The container run alone, on every body of DockerBodies, cut into chunks at *)
(* any place                                                                *)

\* TestGenerator after a generation that returned the script test_a, no
\* operation in flight
StreamInit ==
    /\ route = "/test-generator"
    /\ openSources = 0
    /\ InitApp
    /\ appStep = "init"
    /\ file = "cases.csv"
    /\ projectUrl = "https://example.com"
    /\ output = <<"test_a">>
    /\ runCommand = <<"pytest --headed --browser chromium">>
    /\ loading = FALSE
    /\ dockerRunning = FALSE
    /\ dockerOutput = <<>>
    /\ dockerResults = Null
    /\ gen = [pc |-> "idle", requests |-> 1, held |-> "script",
              settled |-> Parsed(JSONparse(<<"{", "\"script\":\"test_a\"", "}">>).data)]
    /\ genStep = Step("generate:done", FALSE, FALSE)
    /\ runStep = Step("init", FALSE, FALSE)
    /\ InitRun

StreamNext ==
    \/ handleRunWithDocker
    \/ runFetchSettles(DockerBodies)
    \/ runReadChunk(FALSE)
    \/ runReadDone
    \/ runReadFails

SpecStream == StreamInit /\ [][StreamNext]_vars

\* The container run with the awaits of the handler settling: a pending fetch
\* settles (resolved or rejected), and a pending reader.read() settles with a
\* chunk, with done or with a rejection; the continuation after the await then
\* runs.  A click on the button is never required to happen.
SpecStreamLive ==
    /\ SpecStream
    /\ WF_vars(runFetchSettles(DockerBodies))
    /\ WF_vars(runReadChunk(FALSE) \/ runReadDone \/ runReadFails)

----------------------------------------------------------------------------
(* Properties *)

IsPrefix(a, b) == Len(a) <= Len(b) /\ SubSeq(b, 1, Len(a)) = a

\* the log entry is a message whose text contains the completion marker
HasMarker(entry) ==
    ~entry.isNull /\ entry.message.t = "string" /\ includes(entry.message.s, Marker)

\* the step appends exactly one entry at the end of the log
AppendsOne == Len(logs') = Len(logs) + 1 /\ SubSeq(logs', 1, Len(logs)) = logs

\* C1: in a setup run the rendered log is the sequence of the messages that
\* parsed, in arrival order; loading goes from true to false at most once in a
\* run, and it does so exactly at a transport error or at the first message
\* whose text contains the completion marker, after which the source is closed
\* and nothing more is delivered.
C1_SetupLogAndLoading ==
    [][ AppMounted' =>
          /\ logs' = setupRun'.parsed
          /\ setupRun'.falls <= 1
          /\ setupRun'.started => (appLoading' <=> setupRun'.falls = 0)
          /\ appLoading' <=> openSources' = 1
          /\ (appLoading /\ ~appLoading') =>
                \/ appStep' = "error" /\ logs' = logs
                \/ /\ AppendsOne
                   /\ HasMarker(logs'[Len(logs')])
                   /\ \A i \in 1..Len(logs) : ~HasMarker(logs[i])
          /\ (AppendsOne /\ HasMarker(logs'[Len(logs')])) => ~appLoading'
          /\ appStep' = "error" => ~appLoading'
      ]_vars

\* a run that ended at the marker after a message that parsed and one that did not
C1_Witness ==
    /\ AppMounted
    /\ setupRun.msgs = 3
    /\ Len(logs) = 2
    /\ HasMarker(logs[2])
    /\ ~appLoading
    /\ setupRun.falls = 1

\* C9: while App is mounted, the step that starts a run (loading goes from false
\* to true) is taken with a non-empty path and leaves the log empty; every other
\* step leaves the log unchanged or appends exactly one entry at its end.
C9_LogAppendOnly ==
    [][ AppMounted' =>
          IF ~appLoading /\ appLoading'
          THEN path # "" /\ logs' = <<>>
          ELSE logs' = logs \/ AppendsOne
      ]_vars

\* a second run, whose start discarded the entries of the first, has appended
C9_Witness ==
    /\ AppMounted
    /\ setupRun.discarded >= 2
    /\ Len(logs) >= 1
    /\ setupRun.msgs > Len(logs)

\* the chunk a read step has just delivered
ReadStep == run.pc = "read" /\ run'.pc = "read" /\ Len(run'.rest) < Len(run.rest)
Chunk == SubSeq(run.rest, 1, Len(run.rest) - Len(run'.rest))

\* a "data: " line whose payload is not valid JSON
MalformedFrame(line) ==
    startsWith(line, Prefix) /\ ~JSONparse(slice(line, PrefixLen)).ok

\* C10: in the setup stream a message that is not valid JSON (one delivered but
\* not parsed) leaves the log, the open source and the loading flag as they
\* were, so later messages are still delivered; in the container stream a chunk
\* that is one "data: " line with a payload that is not valid JSON appends the
\* raw line and a newline to the execution log, leaves the results slot as it
\* was, and the read loop goes on.
C10_MalformedFrames ==
    [][ /\ ( /\ AppMounted
             /\ setupRun'.msgs = setupRun.msgs + 1
             /\ Len(setupRun'.parsed) = Len(setupRun.parsed) )
           => /\ logs' = logs
              /\ openSources' = openSources
              /\ appLoading' = appLoading
              /\ appLoading
        /\ \A line \in {SubSeq(run.rest, 1, k) : k \in 0..Len(run.rest)} :
              ( /\ ReadStep
                /\ Chunk = line \o <<NL>>
                /\ ~includes(line, NL)
                /\ MalformedFrame(line) )
              => /\ dockerOutput' = dockerOutput \o line \o <<NL>>
                 /\ run'.fullOutput = dockerOutput'
                 /\ dockerResults' = dockerResults
                 /\ dockerRunning'
      ]_vars

\* the container run has shown a malformed frame raw and then the log frame
\* that followed it
C10_Witness ==
    /\ dockerOutput = Prefix \o <<"oops", NL, "a", NL>>
    /\ dockerResults = Null
    /\ run.pc = "read"

\* a step of handleGenerate taken while no file is selected and no generation is
\* in flight: the handler was invoked and ran its validation
GenerateInvokedWithoutFile == file = NoFile /\ gen.pc = "idle" /\ genStep' # genStep

\* C4 as stated: generation invoked with no file selected issues no request and
\* shows a blocking notice (alert).
C4_NoFileAlerts ==
    [][ GenerateInvokedWithoutFile =>
          /\ ~genStep'.request
          /\ gen' = gen
          /\ genStep'.alert
      ]_vars

\* C4, amended: generation invoked with no file selected issues no request,
\* changes nothing of the component's state and shows no notice: the handler
\* returns silently.
C4_NoFileReturnsSilently ==
    [][ GenerateInvokedWithoutFile =>
          /\ genStep' = Step("generate:return", FALSE, FALSE)
          /\ UNCHANGED <<gen, loading, output, runCommand, file, projectUrl>>
      ]_vars

\* the handler has run with a URL entered and no file selected
C4_Witness ==
    /\ genStep.op = "generate:return"
    /\ file = NoFile
    /\ projectUrl # ""
    /\ gen.pc = "idle"
    /\ gen.requests = 0

\* the last generation has run to its end
GenerateFinished == gen.pc = "idle" /\ gen.settled.kind # "none"

\* C5 as stated: a finished generation issued exactly one request and left in
\* output the script field of the response, or "Error: " and the error message.
C5_OutputIsScriptField ==
    GenerateFinished =>
        /\ gen.requests = 1
        /\ gen.settled.kind = "parsed" =>
              gen.settled.script.t = "string" /\ output = gen.settled.script.s
        /\ gen.settled.kind = "rejected" => output = <<"Error: ">> \o gen.settled.message

\* C5, amended: a finished generation issued exactly one request and left in
\* output the script field of the response when the response has one that is not
\* empty, the empty string when it has none (or an empty or null one), or
\* "Error: " and the error message when the request or the parsing failed.
C5_OutputIsScriptOrEmpty ==
    GenerateFinished =>
        /\ gen.requests = 1
        /\ ~loading
        /\ gen.settled.kind = "parsed" =>
              output = IF gen.settled.script.t = "string" THEN gen.settled.script.s ELSE <<>>
        /\ gen.settled.kind = "rejected" => output = <<"Error: ">> \o gen.settled.message

\* a generation whose response had no script field has finished
C5_Witness ==
    /\ GenerateFinished
    /\ gen.settled.kind = "parsed"
    /\ gen.settled.script = Undefined
    /\ output = <<>>

InFlight(process) == IF process.pc = "idle" THEN 0 ELSE 1

\* C6 as stated: at most one setup stream is open, and in TestGenerator at most
\* one of the generation request and the container run is in progress.
C6_OneOperationInFlight ==
    /\ openSources <= 1
    /\ InFlight(gen) + InFlight(run) <= 1

\* C7 as stated: the execution request is issued only when output holds a script
\* returned by a successful generation.
C7_RunNeedsScript ==
    [][ (run.pc = "idle" /\ run'.pc = "fetch") =>
          /\ gen.held = "script"
          /\ gen.settled.kind = "parsed"
          /\ output = gen.settled.script.s
      ]_vars

\* the lines of a chunk, as the loop sees them
LinesOf(chunk) == split(chunk, NL)

Unprefixed(line) == ~startsWith(line, Prefix)

\* line \o "\n" for each line, in order
RECURSIVE Verbatim(_)
Verbatim(lines) ==
    IF lines = <<>> THEN <<>>
    ELSE Head(lines) \o <<NL>> \o Verbatim(Tail(lines))

\* the lines among lines that start with the prefix
RECURSIVE Prefixed(_)
Prefixed(lines) ==
    IF lines = <<>> THEN <<>>
    ELSE IF Unprefixed(Head(lines)) THEN Prefixed(Tail(lines))
    ELSE <<Head(lines)>> \o Prefixed(Tail(lines))

\* C2 as stated: a chunk that is one line without the prefix (and without a
\* newline) is appended, with a newline, to the execution log, and the results
\* slot stays as it was.
C2_UnprefixedAppended ==
    [][ (ReadStep /\ ~includes(Chunk, NL) /\ Unprefixed(Chunk)) =>
          /\ run'.fullOutput = run.fullOutput \o Chunk \o <<NL>>
          /\ dockerOutput' = run'.fullOutput
          /\ dockerResults' = dockerResults
      ]_vars

\* C2, amended: a line that does not start with "data: " is skipped. A chunk
\* made of such lines only leaves the execution log and the results slot as they
\* were, and any chunk has the effect of its prefixed lines alone.
C2_UnprefixedSkipped ==
    [][ ReadStep =>
          /\ (\A i \in 1..Len(LinesOf(Chunk)) : Unprefixed(LinesOf(Chunk)[i])) =>
                /\ run'.fullOutput = run.fullOutput
                /\ dockerOutput' = dockerOutput
                /\ dockerResults' = dockerResults
          /\ LET st == processLines(LoopState, Prefixed(LinesOf(Chunk)))
             IN  /\ run'.fullOutput = st.fullOutput
                 /\ dockerOutput' = st.dockerOutput
                 /\ dockerResults' = st.dockerResults
      ]_vars

\* a whole body of lines without the prefix has been read and nothing is shown
C2_Witness ==
    /\ runStep.op = "run:chunk"
    /\ "unprefixed" \in runStep.kinds
    /\ runStep.kinds \subseteq {"unprefixed", "empty"}
    /\ run.rest = <<>>
    /\ dockerOutput = <<>>
    /\ dockerResults = Null

EndsWith(text, tail) ==
    Len(text) >= Len(tail) /\ SubSeq(text, Len(text) - Len(tail) + 1, Len(text)) = tail

\* C3 as stated: a chunk that is one log frame appends its message and a
\* newline; a chunk that is one result frame replaces the results slot and adds
\* nothing to the log; after the log frame "a" and the result frame
\* {passed:2, failed:1, total:3} the log ends with "a\n" and the results slot
\* holds that object.
C3_FramesByType ==
    [][ ReadStep =>
          /\ Chunk = LogFrameA \o <<NL>> =>
                /\ dockerOutput' = run.fullOutput \o <<"a", NL>>
                /\ dockerResults' = dockerResults
          /\ Chunk = ResultFrame \o <<NL>> =>
                /\ dockerResults' = Obj(2, 1, 3)
                /\ run'.fullOutput = run.fullOutput
                /\ dockerOutput' = dockerOutput
          /\ Chunk = LogFrameA \o <<NL>> \o ResultFrame \o <<NL>> =>
                /\ EndsWith(dockerOutput', <<"a", NL>>)
                /\ dockerResults' = Obj(2, 1, 3)
      ]_vars

\* C8 as stated: from the reset that starts a run to its end, every value of
\* dockerOutput has the values before it as prefixes.
C8_LogGrowsAlways ==
    [][ run.pc # "idle" => IsPrefix(dockerOutput, dockerOutput') ]_vars

\* C8, amended: within a run every value of dockerOutput has the values before
\* it as prefixes while chunks are read and when the stream completes; when the
\* request or a read fails, the run ends and dockerOutput is replaced by
\* "Error running Docker tests: " and the error message.
C8_LogGrowsUntilFailure ==
    [][ run.pc # "idle" =>
          \/ IsPrefix(dockerOutput, dockerOutput')
          \/ /\ run'.pc = "idle"
             /\ ~dockerRunning'
             /\ \E m \in {FailedToFetch, HttpError, NetworkError} :
                   dockerOutput' = <<"Error running Docker tests: ">> \o m
      ]_vars

\* a read failed after part of the log had been shown
C8_Witness ==
    /\ runStep.op = "run:error"
    /\ run.pc = "idle"
    /\ run.fullOutput # <<>>
    /\ dockerOutput = <<"Error running Docker tests: ">> \o NetworkError

\* the handler is between its start and its return
RunInProgress == run.pc # "idle"

\* C11: a container run terminates.  dockerRunning is true exactly from the
\* start of a run until the handler returns, and once the request and the reads
\* settle (the stream completes, or the request or a read fails) the read loop
\* has exited and dockerRunning is false again.
C11_RunTerminates ==
    /\ [](dockerRunning <=> RunInProgress)
    /\ RunInProgress ~> (~RunInProgress /\ ~dockerRunning)

\* a run read a frame and ended with the stream reporting completion
C11_Witness ==
    /\ runStep.op = "run:done"
    /\ ~RunInProgress
    /\ ~dockerRunning
    /\ run.sent = output
    /\ dockerOutput # <<>>

\* what the loop leaves in fullOutput, dockerOutput and dockerResults when it
\* goes on from st and the unread text arrives in one chunk
ReadInOneChunk(st, text) == IF text = <<>> THEN st ELSE processChunk(st, text)

\* C12: the log and the results slot depend on the text of the body only, not
\* on its division into chunks.  Reading a first part of the unread text as a
\* chunk of its own and the remainder afterwards leaves what reading the unread
\* text in one chunk leaves; by induction on the reads, every division of a
\* body ends with the log and results of the undivided body.
C12_ChunkingIndependent ==
    [][ ReadStep =>
          ReadInOneChunk(LoopState', run'.rest) = ReadInOneChunk(LoopState, run.rest)
      ]_vars

\* {(dockerOutput || dockerResults) && ( ... the execution section is rendered
DockerSectionShown == dockerOutput # <<>> \/ dockerResults # Null

\* C13 as stated: a log or results on display come from a container run of the
\* script that output holds now; no generation, successful or failed, leaves
\* the log or results of a run of an earlier script beside a different output.
C13_ResultsBelongToOutput ==
    DockerSectionShown => run.sent = output

====
